---------------------------- MODULE Spec2Model ----------------------------
(***************************************************************************)
(* A model of src/research_agent_app.py: DeepResearchSystem.search_web and *)
(* DeepResearchSystem.conduct_research, with the search provider and the   *)
(* completion service as an environment whose every call may fail, return  *)
(* a malformed body, or return a well-formed one.                          *)
(*                                                                         *)
(* Texts that the code splits and strips (the query, completion texts, the *)
(* report) are sequences of pieces, one character per piece where the code *)
(* looks at characters.  The fields of a provider entry are JSON values    *)
(* [isstr, s]: a JSON string s, or JSON null when isstr is FALSE.          *)
(***************************************************************************)
EXTENDS Integers, Sequences, FiniteSets, TLC

VARIABLES
    pc,               \* where the program is
    depth,            \* conduct_research's depth argument
    query,            \* conduct_research's query argument
    search_rounds,    \* line 47
    sources_per_round,\* line 48
    all_sources,      \* line 49, the accumulator
    search_queries,   \* line 50
    i,                \* rounds of the loop of line 60 already run
    unique_sources,   \* line 66
    analysis,         \* lines 72/74
    result,           \* the returned dict of lines 85-90
    exception,        \* the exception conduct_research raised, "" when none
    calls,            \* the external calls of the current run, in order
    expansion_reply,  \* what the completion service answers the expansion prompt
    analysis_reply,   \* what the completion service answered Stage A's prompt
    report_reply,     \* what the completion service answered Stage B's prompt
    completed,        \* per depth, the search rounds of the last finished run
    runs,             \* number of conduct_research calls so far
    arg,              \* the input of the pure function under check
    ret               \* its output

vars == <<pc, depth, query, search_rounds, sources_per_round, all_sources,
          search_queries, i, unique_sources, analysis, result, exception,
          calls, expansion_reply, analysis_reply, report_reply, completed,
          runs, arg, ret>>

(***************************** bounds ***************************************)
\* longest RelatedTopics list of the search_web specification
MaxTopics == 4
\* largest num_results of the search_web specification
MaxLimit == 3
\* longest accumulator of the deduplication specification
MaxAcc == 4
\* conduct_research calls per behaviour
MaxRuns == 2
\* entries of a bulk provider answer
BulkLen == 8

(************************ program constants *********************************)
\* setup_research_system, line 93
max_sources == 15
\* setup_research_system, line 93: search_delay = 0.5 s, in milliseconds
search_delay == 500

config == [gemini_api_key |-> "key", max_sources |-> max_sources,
           search_delay |-> search_delay]

(***************************** sequences ************************************)
Take(s, n) == SubSeq(s, 1, IF n < Len(s) THEN n ELSE Len(s))

Min(a, b) == IF a < b THEN a ELSE b

SeqsUpTo(S, n) == UNION {[1..m -> S] : m \in 0..n}

(*************************** Python strings *********************************)
Whitespace == {" ", "\t", "\n", "\r"}

RECURSIVE lstrip(_)
lstrip(s) ==
    IF s # <<>> /\ Head(s) \in Whitespace THEN lstrip(Tail(s)) ELSE s

RECURSIVE rstrip(_)
rstrip(s) ==
    IF s # <<>> /\ s[Len(s)] \in Whitespace
    THEN rstrip(SubSeq(s, 1, Len(s) - 1)) ELSE s

\* str.strip()
strip(s) == rstrip(lstrip(s))

\* str.split(sep): the pieces between the separators, empty pieces kept
RECURSIVE split(_, _)
split(s, sep) ==
    IF \A j \in 1..Len(s) : s[j] # sep
    THEN <<s>>
    ELSE LET j == CHOOSE j \in 1..Len(s) :
                      s[j] = sep /\ \A h \in 1..(j - 1) : s[h] # sep
         IN  <<SubSeq(s, 1, j - 1)>> \o split(SubSeq(s, j + 1, Len(s)), sep)

\* str(n) for n >= 0
RECURSIVE str(_)
str(n) ==
    LET d == <<"0", "1", "2", "3", "4", "5", "6", "7", "8", "9">>
    IN  IF n < 10 THEN <<d[n + 1]>> ELSE str(n \div 10) \o <<d[(n % 10) + 1]>>

(***************************** JSON values **********************************)
JStr(s) == [isstr |-> TRUE, s |-> s]
JNull == [isstr |-> FALSE, s |-> ""]

\* Python truthiness of a JSON string or null
truthy(v) == v.isstr /\ v.s # ""

(******************************* search_web *********************************)
\* A RelatedTopics entry: a non-dict, or a dict with optional Text, FirstURL.
Topic(text, url) == [isdict |-> TRUE, has |-> {"Text", "FirstURL"},
                     Text |-> text, FirstURL |-> url]
TopicNoURL(text) == [isdict |-> TRUE, has |-> {"Text"},
                     Text |-> text, FirstURL |-> JNull]
TopicNoText(url) == [isdict |-> TRUE, has |-> {"FirstURL"},
                     Text |-> JNull, FirstURL |-> url]
NonDict == [isdict |-> FALSE, has |-> {}, Text |-> JNull, FirstURL |-> JNull]

\* A provider outcome: requests.get raised, the body is not JSON, the body is
\* a JSON object without RelatedTopics, with a RelatedTopics that cannot be
\* sliced, or with a RelatedTopics list.
NetworkError == [kind |-> "error", topics |-> <<>>]
NotJson == [kind |-> "notjson", topics |-> <<>>]
NoRelatedTopics == [kind |-> "nokey", topics |-> <<>>]
RelatedTopicsNotList == [kind |-> "notlist", topics |-> <<>>]
Body(topics) == [kind |-> "json", topics |-> topics]

\* dict.get(key, '')
get(topic, key) == IF key \in topic.has THEN topic[key] ELSE JStr("")

\* lines 36-40
SourceOf(topic) == [title |-> get(topic, "Text"),
                    url |-> get(topic, "FirstURL"),
                    snippet |-> get(topic, "Text")]

\* line 35
Usable(topic) == topic.isdict /\ "Text" \in topic.has

\* lines 34-40: the loop over data['RelatedTopics'][:num_results]
RECURSIVE results_of(_)
results_of(topics) ==
    IF topics = <<>> THEN <<>>
    ELSE (IF Usable(Head(topics)) THEN <<SourceOf(Head(topics))>> ELSE <<>>)
         \o results_of(Tail(topics))

\* lines 26-43
search_web(response, num_results) ==
    IF response.kind = "json"
    THEN results_of(Take(response.topics, num_results))
    ELSE <<>>

(***************************** deduplication ********************************)
\* DictSet with the bug of keeping the value already stored (setdefault)
DictSetKeepFirst(d, key, value) ==
    IF \E j \in 1..Len(d) : d[j].key = key
    THEN d
    ELSE Append(d, [key |-> key, value |-> value])

\* d[key] = value on an insertion-ordered dict, a sequence of items
DictSet(d, key, value) ==
    IF \E j \in 1..Len(d) : d[j].key = key
    THEN [j \in 1..Len(d) |->
             IF d[j].key = key THEN [key |-> key, value |-> value] ELSE d[j]]
    ELSE Append(d, [key |-> key, value |-> value])

\* {source['url']: source for source in sources if source['url']}
RECURSIVE DictOf(_, _)
DictOf(d, sources) ==
    IF sources = <<>> THEN d
    ELSE DictOf(IF truthy(Head(sources).url)
                THEN DictSet(d, Head(sources).url, Head(sources))
                ELSE d,
                Tail(sources))

\* line 66
Deduplicated(sources) ==
    LET d == DictOf(<<>>, sources) IN [j \in 1..Len(d) |-> d[j].value]


(************************** conduct_research ********************************)
\* The depths a caller may pass: the three of the table, and one outside it.
Depths == {"basic", "standard", "deep", "exhaustive"}

\* line 47: {"basic": 1, "standard": 2, "deep": 3}.get(depth, 2)
SearchRoundsOf(d) ==
    CASE d = "basic" -> 1 [] d = "standard" -> 2 [] d = "deep" -> 3 [] OTHER -> 2

\* line 48: {"basic": 3, "standard": 5, "deep": 7}.get(depth, 5)
SourcesPerRoundOf(d) ==
    CASE d = "basic" -> 3 [] d = "standard" -> 5 [] d = "deep" -> 7 [] OTHER -> 5

\* line 51
Expands(d) == d \in {"standard", "deep"}

\* additional_queries with the bug of keeping blank lines
additional_queries_unfiltered(text) ==
    LET lines == split(text, "\n")
    IN  Take([j \in 1..Len(lines) |-> strip(lines[j])], 2)

\* line 55: [q.strip() for q in text.split('\n') if q.strip()][:2]
StrippedLines(text) ==
    LET lines == split(text, "\n")
    IN  [j \in 1..Len(lines) |-> strip(lines[j])]

NonEmpty(q) == q # <<>>

additional_queries(text) == Take(SelectSeq(StrippedLines(text), NonEmpty), 2)

\* RoundQueries with the bug of not truncating to search_rounds
RoundQueriesUntruncated(queries, rounds) == queries

\* line 60: search_queries[:search_rounds]
RoundQueries(queries, rounds) == Take(queries, rounds)

\* json.loads on the texts the completion service answers Stage A with
BothKeys == <<"{\"themes\": [\"T\"], \"insights\": [\"I\"]}">>
OnlyThemes == <<"{\"themes\": [\"T\"]}">>
OnlyInsights == <<"{\"insights\": [\"I\"]}">>
JsonList == <<"[\"T\", \"I\"]">>
Prose == <<"Here is the analysis: {\"themes\": [\"T\"], \"insights\": [\"I\"]}">>

json_loads(text) ==
    CASE text = BothKeys ->
           [ok |-> TRUE, kind |-> "dict",
            items |-> [themes |-> <<"T">>, insights |-> <<"I">>]]
      [] text = OnlyThemes ->
           [ok |-> TRUE, kind |-> "dict", items |-> [themes |-> <<"T">>]]
      [] text = OnlyInsights ->
           [ok |-> TRUE, kind |-> "dict", items |-> [insights |-> <<"I">>]]
      [] text = JsonList ->
           [ok |-> TRUE, kind |-> "list", items |-> <<"T", "I">>]
      [] OTHER -> [ok |-> FALSE, kind |-> "", items |-> <<>>]

\* line 74
DefaultAnalysis ==
    [kind |-> "dict",
     items |-> [themes |-> <<"Information synthesis">>,
                insights |-> <<"Comprehensive analysis">>]]

NoAnalysis == [kind |-> "", items |-> <<>>]

\* lines 70-74
AnalysisOf(reply) ==
    IF reply.ok /\ json_loads(reply.text).ok
    THEN [kind |-> json_loads(reply.text).kind,
          items |-> json_loads(reply.text).items]
    ELSE DefaultAnalysis

\* analysis[key] of line 77: "" when it evaluates, else the exception raised
SubscriptError(a, key) ==
    IF a.kind # "dict" THEN "TypeError"
    ELSE IF key \notin DOMAIN a.items THEN "KeyError" ELSE ""

\* line 77: the exception building report_prompt raises, "" when none
ReportPromptError(a) ==
    IF SubscriptError(a, "themes") # "" THEN SubscriptError(a, "themes")
    ELSE SubscriptError(a, "insights")

\* line 69: " ".join of the snippets raises on a snippet that is no string
AnalysisPromptError(sources) ==
    IF \E j \in 1..Len(sources) : ~sources[j].snippet.isstr
    THEN "TypeError" ELSE ""

\* line 83
FallbackReport(q, n) ==
    <<"# Research Report: ">> \o q
    \o <<"\n\n## Executive Summary\n\nNo report generated due to API error. A comprehensive analysis was attempted on ">>
    \o str(n) \o <<" sources.">>

\* ReportOf with the bug of counting the accumulator, duplicates included
ReportOfAllSources(reply, q, sources) ==
    IF reply.ok THEN reply.text ELSE FallbackReport(q, Len(all_sources))

\* lines 79-83
ReportOf(reply, q, sources) ==
    IF reply.ok THEN reply.text ELSE FallbackReport(q, Len(sources))

\* lines 85-90
ResultOf(q, sources, report) ==
    [query |-> q, sources_found |-> Len(sources), report |-> report,
     sources |-> sources]

NoResult == [query |-> <<>>, sources_found |-> 0, report |-> <<>>,
             sources |-> <<>>]

(****************************** environment *********************************)
Queries == { <<"s", "u", "n">>, <<"x">> }

Failed == [ok |-> FALSE, text |-> <<>>]
Text(t) == [ok |-> TRUE, text |-> t]

ExpansionReplies ==
    { Failed,
      Text(<<>>),
      Text(<<" ", "\n", "\t", "\n">>),
      Text(<<"b">>),
      Text(<<" ", "b", " ", "\n", "\n", "c", "\r">>),
      Text(<<"b", "\n", "c", "\n", "d">>) }

AnalysisReplies ==
    { Failed, Text(<<>>), Text(Prose), Text(BothKeys), Text(OnlyThemes),
      Text(OnlyInsights), Text(JsonList) }

ReportReplies == { Failed, Text(<<>>), Text(<<"# Report">>) }

\* a provider answer of BulkLen usable entries with urls of its own
BulkTopics(r) ==
    [j \in 1..BulkLen |->
        Topic(JStr("text"), JStr("u" \o ToString(r) \o "-" \o ToString(j)))]

SearchResponses ==
    { NetworkError, NotJson, NoRelatedTopics,
      Body(<<Topic(JStr("a"), JStr("u1")), Topic(JStr("b"), JStr("u2"))>>),
      Body(<<NonDict, Topic(JStr("c"), JStr("u1")), TopicNoURL(JStr("d"))>>),
      Body(<<Topic(JNull, JStr("u3"))>>) }
    \cup { Body(BulkTopics(r)) : r \in 1..3 }

(********************************* state ************************************)
NoReply == [ok |-> FALSE, text |-> <<"(no call)">>]

Call_(op, q, n) == [op |-> op, query |-> q, n |-> n]

\* the search rounds among the calls: the query and the cap of each
SearchCalls(cs) == SelectSeq(cs, LAMBDA c : c.op = "search")
Rounds(cs) ==
    [j \in 1..Len(SearchCalls(cs)) |->
        [query |-> SearchCalls(cs)[j].query, cap |-> SearchCalls(cs)[j].n]]

NotRun == [ran |-> FALSE, rounds |-> <<>>]

RunIdle ==
    /\ depth = "" /\ search_rounds = 0 /\ sources_per_round = 0
    /\ all_sources = <<>> /\ search_queries = <<>> /\ i = 0
    /\ unique_sources = <<>> /\ analysis = NoAnalysis /\ result = NoResult
    /\ exception = "" /\ calls = <<>>
    /\ analysis_reply = NoReply /\ report_reply = NoReply
    /\ completed = [d \in Depths |-> NotRun] /\ runs = 0

Init ==
    /\ pc = "idle"
    /\ query \in Queries
    /\ expansion_reply \in ExpansionReplies
    /\ RunIdle
    /\ arg = <<>> /\ ret = <<>>

Finished(d, cs) == [completed EXCEPT ![d] = [ran |-> TRUE, rounds |-> Rounds(cs)]]

\* lines 45-50: a call of conduct_research(query, d)
Call(d) ==
    /\ pc \in {"idle", "done", "raised"}
    /\ runs < MaxRuns
    /\ runs' = runs + 1
    /\ depth' = d
    /\ search_rounds' = SearchRoundsOf(d)
    /\ sources_per_round' = SourcesPerRoundOf(d)
    /\ all_sources' = <<>>
    /\ search_queries' = <<query>>
    /\ i' = 0
    /\ unique_sources' = <<>>
    /\ analysis' = NoAnalysis
    /\ result' = NoResult
    /\ exception' = ""
    /\ calls' = <<>>
    /\ analysis_reply' = NoReply
    /\ report_reply' = NoReply
    /\ pc' = IF Expands(d) THEN "expand" ELSE "search"
    /\ UNCHANGED <<query, expansion_reply, completed, arg, ret>>

\* lines 52-58
Expand ==
    /\ pc = "expand"
    /\ calls' = Append(calls, Call_("expand", <<>>, 0))
    /\ search_queries' =
          IF expansion_reply.ok
          THEN search_queries \o additional_queries(expansion_reply.text)
          ELSE search_queries
    /\ pc' = "search"
    /\ UNCHANGED <<depth, query, search_rounds, sources_per_round, all_sources,
                   i, unique_sources, analysis, result, exception,
                   expansion_reply, analysis_reply, report_reply, completed,
                   runs, arg, ret>>

\* lines 60-64: one round of the loop, the provider answering `response`
SearchRound(response) ==
    /\ pc = "search"
    /\ i < Len(RoundQueries(search_queries, search_rounds))
    /\ LET search_query == RoundQueries(search_queries, search_rounds)[i + 1]
       IN  /\ all_sources' =
                 all_sources \o search_web(response, sources_per_round)
           /\ calls' = calls \o <<Call_("search", search_query, sources_per_round),
                                  Call_("sleep", <<>>, config.search_delay)>>
    /\ i' = i + 1
    /\ UNCHANGED <<pc, depth, query, search_rounds, sources_per_round,
                   search_queries, unique_sources, analysis, result, exception,
                   expansion_reply, analysis_reply, report_reply, completed,
                   runs, arg, ret>>

\* lines 66-69: after the loop, deduplicate and build the analysis prompt
Deduplicate ==
    /\ pc = "search"
    /\ i = Len(RoundQueries(search_queries, search_rounds))
    /\ unique_sources' = Deduplicated(all_sources)
    /\ exception' = AnalysisPromptError(unique_sources')
    /\ pc' = IF exception' = "" THEN "stageA" ELSE "raised"
    /\ completed' = IF exception' = "" THEN completed
                    ELSE Finished(depth, calls)
    /\ UNCHANGED <<depth, query, search_rounds, sources_per_round, all_sources,
                   search_queries, i, analysis, result, calls,
                   expansion_reply, analysis_reply, report_reply, runs, arg, ret>>

\* lines 70-74: Stage A, the completion service answering `reply`
StageA(reply) ==
    /\ pc = "stageA"
    /\ calls' = Append(calls, Call_("stageA", <<>>, 0))
    /\ analysis_reply' = reply
    /\ analysis' = AnalysisOf(reply)
    /\ pc' = "report_prompt"
    /\ UNCHANGED <<depth, query, search_rounds, sources_per_round, all_sources,
                   search_queries, i, unique_sources, result, exception,
                   expansion_reply, report_reply, completed, runs, arg, ret>>

\* lines 76-77: build the report prompt from the sources and the analysis
BuildReportPrompt ==
    /\ pc = "report_prompt"
    /\ exception' = ReportPromptError(analysis)
    /\ pc' = IF exception' = "" THEN "stageB" ELSE "raised"
    /\ completed' = IF exception' = "" THEN completed
                    ELSE Finished(depth, calls)
    /\ UNCHANGED <<depth, query, search_rounds, sources_per_round, all_sources,
                   search_queries, i, unique_sources, analysis, result, calls,
                   expansion_reply, analysis_reply, report_reply, runs, arg, ret>>

\* lines 79-90: Stage B, the completion service answering `reply`, and return
StageB(reply) ==
    /\ pc = "stageB"
    /\ calls' = Append(calls, Call_("stageB", <<>>, 0))
    /\ report_reply' = reply
    /\ result' = ResultOf(query, unique_sources,
                          ReportOf(reply, query, unique_sources))
    /\ pc' = "done"
    /\ completed' = Finished(depth, calls')
    /\ UNCHANGED <<depth, query, search_rounds, sources_per_round, all_sources,
                   search_queries, i, unique_sources, analysis, exception,
                   expansion_reply, analysis_reply, runs, arg, ret>>

Next ==
    \/ \E d \in Depths : Call(d)
    \/ Expand
    \/ \E response \in SearchResponses : SearchRound(response)
    \/ Deduplicate
    \/ \E reply \in AnalysisReplies : StageA(reply)
    \/ BuildReportPrompt
    \/ \E reply \in ReportReplies : StageB(reply)

Spec == Init /\ [][Next]_vars

(******************* search_web as a function of its inputs *****************)
TopicPool ==
    { NonDict, TopicNoText(JStr("u1")), Topic(JStr("a"), JStr("u1")),
      Topic(JStr("b"), JStr("u2")), TopicNoURL(JStr("c")) }

ProviderResponses ==
    { NetworkError, NotJson, NoRelatedTopics, RelatedTopicsNotList }
    \cup { Body(t) : t \in SeqsUpTo(TopicPool, MaxTopics) }

NotInPipeline ==
    /\ query = <<>>
    /\ expansion_reply = NoReply
    /\ RunIdle

InitSearch ==
    /\ pc = "search_web"
    /\ arg \in [response : ProviderResponses, num_results : 0..MaxLimit]
    /\ ret = <<>>
    /\ NotInPipeline

\* a call search_web(arg.response, arg.num_results)
ApplySearchWeb ==
    /\ pc = "search_web"
    /\ ret' = search_web(arg.response, arg.num_results)
    /\ pc' = "searched"
    /\ UNCHANGED <<depth, query, search_rounds, sources_per_round, all_sources,
                   search_queries, i, unique_sources, analysis, result,
                   exception, calls, expansion_reply, analysis_reply,
                   report_reply, completed, runs, arg>>

NextSearch == ApplySearchWeb

SpecSearch == InitSearch /\ [][NextSearch]_vars

(**************** deduplication as a function of its input ******************)
SourcePool ==
    { [title |-> JStr(t), url |-> JStr(u), snippet |-> JStr(t)] :
          t \in {"a", "b"}, u \in {"", "u1", "u2"} }

InitDedup ==
    /\ pc = "deduplicate"
    /\ arg \in SeqsUpTo(SourcePool, MaxAcc)
    /\ ret = <<>>
    /\ NotInPipeline

\* line 66 applied to the accumulator arg
ApplyDeduplicated ==
    /\ pc = "deduplicate"
    /\ ret' = Deduplicated(arg)
    /\ pc' = "deduplicated"
    /\ UNCHANGED <<depth, query, search_rounds, sources_per_round, all_sources,
                   search_queries, i, unique_sources, analysis, result,
                   exception, calls, expansion_reply, analysis_reply,
                   report_reply, completed, runs, arg>>

NextDedup == ApplyDeduplicated

SpecDedup == InitDedup /\ [][NextDedup]_vars

(******************************* properties *********************************)
Returned == pc = "done"
Raised == pc = "raised"
LoopOver == pc \in {"stageA", "report_prompt", "stageB", "done", "raised"}
KnownDepths == {"basic", "standard", "deep"}

\* C1: conduct_research always returns a ResearchResult and never raises,
\* whatever its search and completion calls do.
C1_NeverRaises == ~Raised

\* the indices of the occurrences of url u in the accumulator acc
Occurrences(acc, u) == {k \in 1..Len(acc) : acc[k].url = u}
FirstIndex(acc, u) ==
    CHOOSE k \in Occurrences(acc, u) : \A h \in Occurrences(acc, u) : k <= h
LastIndex(acc, u) ==
    CHOOSE k \in Occurrences(acc, u) : \A h \in Occurrences(acc, u) : h <= k

\* C2: the deduplicated sequence holds exactly one record per distinct
\* non-empty url of the accumulator and none with an empty url; each record
\* is the last occurrence of its url, and the records are ordered by the
\* first occurrence of their url.
C2_Deduplication ==
    pc = "deduplicated" =>
        /\ \A j \in 1..Len(ret) :
              /\ ret[j].url # JStr("")
              /\ Occurrences(arg, ret[j].url) # {}
              /\ ret[j] = arg[LastIndex(arg, ret[j].url)]
        /\ \A k \in 1..Len(arg) :
              arg[k].url # JStr("") =>
                  Cardinality({j \in 1..Len(ret) : ret[j].url = arg[k].url}) = 1
        /\ \A j, h \in 1..Len(ret) :
              j < h => FirstIndex(arg, ret[j].url) < FirstIndex(arg, ret[h].url)

\* a url occurs twice with different fields, first before another url, and
\* an empty url occurs
C2_Witness ==
    /\ pc = "deduplicated"
    /\ Len(ret) = 2
    /\ \E k, h, e \in 1..Len(arg) :
          /\ k < h /\ arg[k].url = arg[h].url /\ arg[k] # arg[h]
          /\ arg[k].url = ret[1].url
          /\ arg[e].url = JStr("")

\* C3: basic runs exactly 1 search round, with cap 3; standard at most 2,
\* each with cap 5; deep at most 3, each with cap 7.
C3_DepthBudget ==
    LET r == Rounds(calls)
        Caps(c) == \A j \in 1..Len(r) : r[j].cap = c
    IN  /\ depth = "basic" =>
              Len(r) <= 1 /\ Caps(3) /\ (LoopOver => Len(r) = 1)
        /\ depth = "standard" => Len(r) <= 2 /\ Caps(5)
        /\ depth = "deep" => Len(r) <= 3 /\ Caps(7)

\* a standard run whose expansion gave two queries has returned after 2 rounds
C3_Witness ==
    /\ Returned
    /\ depth = "standard"
    /\ Len(search_queries) = 3
    /\ Len(Rounds(calls)) = 2

\* C4: a run with a depth outside the table executes the same search rounds
\* (queries, caps, count) as a run with depth standard under the same
\* responses.
C4_OtherDepthAsStandard ==
    \A d \in Depths \ KnownDepths :
        (completed[d].ran /\ completed["standard"].ran) =>
            completed[d].rounds = completed["standard"].rounds

\* the reply parses as a JSON object with keys themes and insights
WellShaped(reply) ==
    /\ reply.ok
    /\ json_loads(reply.text).ok
    /\ json_loads(reply.text).kind = "dict"
    /\ {"themes", "insights"} \subseteq DOMAIN json_loads(reply.text).items

\* C5: when the Stage A call fails or its response is no JSON object with
\* keys themes and insights, the analysis handed to Stage B is the default;
\* otherwise it is the parsed response.
C5_AnalysisFallback ==
    pc = "report_prompt" =>
        IF WellShaped(analysis_reply)
        THEN analysis.items = json_loads(analysis_reply.text).items
        ELSE analysis = DefaultAnalysis

\* t occurs in s as a contiguous part
Contains(s, t) ==
    \E a \in 1..(Len(s) - Len(t) + 1) : SubSeq(s, a, a + Len(t) - 1) = t

Digit == {"0", "1", "2", "3", "4", "5", "6", "7", "8", "9"}
DigitValue(c) == CHOOSE v \in 0..9 : <<"0", "1", "2", "3", "4", "5", "6", "7", "8", "9">>[v + 1] = c
RECURSIVE DecimalValue(_)
DecimalValue(ds) ==
    IF ds = <<>> THEN 0
    ELSE 10 * DecimalValue(SubSeq(ds, 1, Len(ds) - 1)) + DigitValue(ds[Len(ds)])

\* s states the number n: a maximal run of digits of value n, then " sources."
StatesCount(s, n) ==
    \E a, b \in 1..Len(s) :
        /\ a <= b
        /\ \A j \in a..b : s[j] \in Digit
        /\ a > 1 => s[a - 1] \notin Digit
        /\ b < Len(s) /\ s[b + 1] = " sources."
        /\ DecimalValue(SubSeq(s, a, b)) = n

\* C6: when the Stage B call fails conduct_research does not raise and its
\* report contains the query and states the number of analyzed sources, which
\* is sources_found; when the call succeeds the report is the text returned.
C6_ReportFallback ==
    report_reply # NoReply =>
        /\ Returned /\ exception = ""
        /\ IF report_reply.ok
           THEN result.report = report_reply.text
           ELSE /\ Contains(result.report, query)
                /\ StatesCount(result.report, result.sources_found)

\* Stage B failed after a run that found a url twice and ten or more sources
C6_Witness ==
    /\ Returned
    /\ ~report_reply.ok
    /\ result.sources_found >= 10
    /\ Len(all_sources) > result.sources_found

\* the provider's body is a JSON object with a RelatedTopics list
WellFormedBody(response) == response.kind = "json"
\* an entry a Source record can be constructed from
WellFormedEntry(topic) == topic.isdict /\ "Text" \in topic.has

\* C7: search never raises; on a failed call or malformed body it returns
\* the empty sequence; otherwise the records of the provider's well-formed
\* entries, in provider order, as many as can be constructed up to limit.
C7_SearchResults ==
    pc = "searched" =>
        IF WellFormedBody(arg.response)
        THEN LET valid == SelectSeq(arg.response.topics, WellFormedEntry)
             IN  /\ Len(ret) = Min(arg.num_results, Len(valid))
                 /\ \A j \in 1..Len(ret) : ret[j] = SourceOf(valid[j])
        ELSE ret = <<>>

\* the lines of a text: the maximal parts a..b free of line feeds
LineSpans(text) ==
    {sp \in (1..(Len(text) + 1)) \X (0..Len(text)) :
        /\ sp[1] <= sp[2] + 1
        /\ \A j \in sp[1]..sp[2] : text[j] # "\n"
        /\ sp[1] = 1 \/ text[sp[1] - 1] = "\n"
        /\ sp[2] = Len(text) \/ text[sp[2] + 1] = "\n"}
Inked(text, sp) == {j \in sp[1]..sp[2] : text[j] \notin Whitespace}
UsableSpans(text) == {sp \in LineSpans(text) : Inked(text, sp) # {}}
Trimmed(text, sp) ==
    LET ink == Inked(text, sp)
    IN  SubSeq(text, CHOOSE a \in ink : \A j \in ink : a <= j,
                     CHOOSE b \in ink : \A j \in ink : j <= b)
\* kept is the first two usable lines of text, trimmed, in order
IsKept(text, kept) ==
    /\ Len(kept) = Min(2, Cardinality(UsableSpans(text)))
    /\ \A n \in 1..Len(kept) :
          \E sp \in UsableSpans(text) :
              /\ Cardinality({o \in UsableSpans(text) : o[1] < sp[1]}) = n - 1
              /\ kept[n] = Trimmed(text, sp)

\* the budget table of the design: the round count of a depth
RoundCount(d) ==
    CASE d = "basic" -> 1 [] d = "standard" -> 2 [] d = "deep" -> 3 [] OTHER -> 2

\* C8: the rounds are the first min(round_count, 1 + k) entries of the
\* original query followed by the k <= 2 kept expansion lines, in that
\* order; a failed or unusable expansion leaves one round, the original query.
C8_RoundQueries ==
    LET r == Rounds(calls)
        searched == [j \in 1..Len(r) |-> r[j].query]
        expanded == \E j \in 1..Len(calls) : calls[j].op = "expand"
        kept == SubSeq(search_queries, 2, Len(search_queries))
        planned == Take(<<query>> \o kept, Min(RoundCount(depth), 1 + Len(kept)))
    IN  (pc = "search" \/ LoopOver) =>
            /\ Len(kept) <= 2
            /\ IF expanded /\ expansion_reply.ok
               THEN IsKept(expansion_reply.text, kept)
               ELSE kept = <<>>
            /\ searched = Take(planned, Len(searched))
            /\ LoopOver => searched = planned
            /\ (LoopOver /\ kept = <<>>) => searched = <<query>>

\* a deep run has searched the query and two lines kept from a reply that
\* also held blank lines and padding
C8_Witness ==
    /\ Returned
    /\ depth = "deep"
    /\ Len(Rounds(calls)) = 3
    /\ Cardinality(LineSpans(expansion_reply.text)) > 2
    /\ Cardinality(UsableSpans(expansion_reply.text)) = 2
    /\ \E j \in 1..Len(expansion_reply.text) : expansion_reply.text[j] = " "

\* C9: every run makes its external calls in one order: at most one
\* expansion call, first and never for basic; the search rounds, each
\* followed by one pause; Stage A once; Stage B once.
C9_CallOrder ==
    (Returned \/ Raised) =>
        LET ops == [j \in 1..Len(calls) |-> calls[j].op]
            e == IF ops # <<>> /\ ops[1] = "expand" THEN 1 ELSE 0
            n == Len(ops) - e - 2
        IN  /\ depth = "basic" => e = 0
            /\ n >= 2 /\ n % 2 = 0
            /\ \A j \in 1..n :
                  ops[e + j] = IF j % 2 = 1 THEN "search" ELSE "sleep"
            /\ ops[Len(ops) - 1] = "stageA"
            /\ ops[Len(ops)] = "stageB"

\* C10: in every ResearchResult sources_found is the length of sources and
\* does not exceed the configuration's max_sources.
C10_SourcesCeiling ==
    Returned =>
        /\ result.sources_found = Len(result.sources)
        /\ result.sources_found <= config.max_sources

============================================================================
